---- MODULE Spec2Model ----
(***************************************************************************)
(* State-machine model of the chat-with-any-website React client:          *)
(*   App           (root, owns the selected site)                          *)
(*   VectorSelection (site roster: fetch, select, delete)                  *)
(*   URLInput      (URL submission form: validate, scrape)                 *)
(*   ChatBox       (chat panel: transcript, chat request)                  *)
(* Every React state cell is a variable; every event handler and every     *)
(* continuation after an `await` is one action.  The backend is an         *)
(* unconstrained environment: each response is drawn from a small set.     *)
(* Text is a sequence of one-character strings so that trim() and the URL  *)
(* parser are computed, not assumed.  Message ids (Date.now()) and the     *)
(* auto-scroll effect are rendering details and are left out.              *)
(***************************************************************************)
EXTENDS Naturals, Sequences, FiniteSets, Bags

VARIABLES
  App_selectedWebsite,   \* App: useState(null)
  VS_websites,           \* VectorSelection: useState([])
  VS_isLoading,          \* VectorSelection: useState(true)
  VS_error,              \* VectorSelection: useState('')
  VS_selectedWebsite,    \* VectorSelection: useState(null)
  VS_deletingId,         \* VectorSelection: useState(null)
  VS_mountFetch,         \* the GET issued by the mount effect is in flight
  VS_deletes,            \* bag of running handleDeleteWebsite invocations
  URL_url,               \* URLInput: useState('')
  URL_isLoading,         \* URLInput: useState(false)
  URL_error,             \* URLInput: useState('')
  URL_success,           \* URLInput: useState('')
  URL_scrapes,           \* set of scrape requests in flight
  Chat_messages,         \* ChatBox: useState([])
  Chat_input,            \* ChatBox: useState('')
  Chat_isLoading,        \* ChatBox: useState(false)
  Chat_requests,         \* set of chat requests in flight
  SI_systemInfo,         \* SystemInfo: useState(null)
  SI_isLoading,          \* SystemInfo: useState(true)
  SI_error,              \* SystemInfo: useState('')
  SI_isExpanded,         \* SystemInfo: useState(false)
  SI_fetch               \* the GET issued by SystemInfo's mount effect is in flight

vars == << App_selectedWebsite, VS_websites, VS_isLoading, VS_error,
           VS_selectedWebsite, VS_deletingId, VS_mountFetch, VS_deletes,
           URL_url, URL_isLoading, URL_error, URL_success, URL_scrapes,
           Chat_messages, Chat_input, Chat_isLoading, Chat_requests,
           SI_systemInfo, SI_isLoading, SI_error, SI_isExpanded, SI_fetch >>

appVars  == << App_selectedWebsite >>
vsVars   == << VS_websites, VS_isLoading, VS_error, VS_selectedWebsite,
               VS_deletingId, VS_mountFetch, VS_deletes >>
urlVars  == << URL_url, URL_isLoading, URL_error, URL_success, URL_scrapes >>
chatVars == << Chat_messages, Chat_input, Chat_isLoading, Chat_requests >>
siVars   == << SI_systemInfo, SI_isLoading, SI_error, SI_isExpanded, SI_fetch >>

----------------------------------------------------------------------------
(* Bounds of the model. *)

\* handleDeleteWebsite invocations that may be running at once
MaxDeletes == 2
\* longest transcript the chat panel is driven to
MaxMessages == 4

----------------------------------------------------------------------------
(* JavaScript values. *)

\* null / undefined of an id or of a backend field
Null == "null"
\* null of an object-valued state cell; a non-null object v is <<v>>
None == << >>
Some(v) == << v >>

\* JavaScript truthiness of an id or string field
Truthy(v) == v # Null /\ v # ""

----------------------------------------------------------------------------
(* Text: String.prototype.trim and the URL constructor. *)

Letters == {"a", "b", "f", "h", "i", "l", "e", "p", "q", "s", "t", "x"}
Digits  == {"0", "8"}
Blank   == {" "}

RECURSIVE TrimStart(_)
TrimStart(s) ==
  IF s # << >> /\ Head(s) \in Blank THEN TrimStart(Tail(s)) ELSE s

RECURSIVE TrimEnd(_)
TrimEnd(s) ==
  IF s # << >> /\ s[Len(s)] \in Blank
    THEN TrimEnd(SubSeq(s, 1, Len(s) - 1))
    ELSE s

\* input.trim()
Trim(s) == TrimEnd(TrimStart(s))

\* index of the first element of s that is in set C, or Len(s) + 1
RECURSIVE FirstIn(_, _, _)
FirstIn(s, C, i) ==
  IF i > Len(s) THEN i
  ELSE IF s[i] \in C THEN i
  ELSE FirstIn(s, C, i + 1)

\* s without its leading elements that are in C
RECURSIVE DropWhile(_, _)
DropWhile(s, C) ==
  IF s # << >> /\ Head(s) \in C THEN DropWhile(Tail(s), C) ELSE s

AllIn(s, C) == \A i \in 1..Len(s) : s[i] \in C

SpecialSchemes ==
  { <<"h","t","t","p">>, <<"h","t","t","p","s">>, <<"f","t","p">>,
    <<"w","s">>, <<"w","s","s">> }
FileScheme == <<"f","i","l","e">>

\* host[:port] of a special (non-file) URL: host not empty and without a
\* forbidden code point, port (if any) all digits
ValidAuthority(a) ==
  LET c    == FirstIn(a, {":"}, 1)
      host == SubSeq(a, 1, c - 1)
      port == SubSeq(a, c + 1, Len(a))
  IN  /\ host # << >>
      /\ AllIn(host, Letters \cup Digits \cup {".", "-"})
      /\ AllIn(port, Digits)

\* new URL(url) with no base does not throw: the WHATWG basic URL parser on
\* the alphabet Letters, Digits, " ", ":", "/", ".", "-" (no "?", "#", "@",
\* "\\", "[", "%"): a scheme is required; http, https, ftp, ws and wss need
\* a valid host after any number of slashes; file takes a host only after
\* "//", and it may be empty; any other scheme takes any rest
ParsesAsURL(url) ==
  LET s      == Trim(url)
      c      == FirstIn(s, {":"}, 1)
      scheme == SubSeq(s, 1, c - 1)
      rest   == SubSeq(s, c + 1, Len(s))
      after  == DropWhile(rest, {"/"})
      e      == FirstIn(after, {"/"}, 1)
      fhost  == SubSeq(rest, 3, FirstIn(rest, {"/"}, 3) - 1)
  IN  /\ c <= Len(s)
      /\ scheme # << >>
      /\ scheme[1] \in Letters
      /\ AllIn(scheme, Letters \cup Digits \cup {".", "-"})
      /\ IF scheme \in SpecialSchemes
           THEN ValidAuthority(SubSeq(after, 1, e - 1))
           ELSE IF scheme = FileScheme /\ Len(rest) >= 2
                   /\ SubSeq(rest, 1, 2) = <<"/", "/">>
             THEN AllIn(fhost, Letters \cup Digits \cup {".", "-"})
             ELSE TRUE

----------------------------------------------------------------------------
(* Inputs: what the user may type and what the backend may answer. *)

UrlA   == <<"h","t","t","p",":","/","/","a">>
UrlB   == <<"h","t","t","p","s",":","/","/","b",".","e">>
UrlBad == <<"a",".","b">>
UrlNoHost == <<"h","t","t","p",":","/","/">>
UrlBlank  == <<" ">>
UrlOpaque == <<"x",":","a">>

\* texts typed into the URL field
UrlInputs == { << >>, UrlBlank, UrlBad, UrlNoHost, UrlOpaque, UrlA, UrlB }

\* rows GET /api/websites/ may return; SiteC is scraped but not vectorized
SiteA == [id |-> "w1", vector_db_id |-> "v1", url |-> UrlA]
SiteB == [id |-> "w2", vector_db_id |-> "v2", url |-> UrlB]
SiteC == [id |-> "w3", vector_db_id |-> Null, url |-> UrlA]
BackendSites == {SiteA, SiteB, SiteC}

\* bodies of a 2xx answer of POST /api/websites/scrape/
ScrapeResponses ==
  { [website_id |-> "w1", vector_db_id |-> "v1", pages_scraped |-> 5],
    [website_id |-> "w3", vector_db_id |-> Null, pages_scraped |-> 5] }

\* err.response?.data?.error of a failed request (Null: no response body)
ErrLocked   == <<"database file: the ", "process is using", " it">>
ErrRestart  == <<"please ", "restart the server">>
ErrOther    == <<"Website not found">>
ErrMessage  == <<"Network Error">>
BackendErrors == {ErrLocked, ErrRestart, ErrOther, << >>}

\* response.data of GET /api/websites/system_info/
SystemInfos == { [ollama_running |-> TRUE,  vectorized_databases |-> {"v1"}],
                 [ollama_running |-> FALSE, vectorized_databases |-> {}] }

\* texts typed into the chat field
ChatInputs == { << >>, <<" ">>, <<"q">> }
\* response.data.answer
Answers == { <<"It's a blog.">> }

----------------------------------------------------------------------------
(* Initial state: every component mounted, the roster's mount effect has   *)
(* called fetchWebsites() and its GET is in flight.                        *)

Init ==
  /\ App_selectedWebsite = None
  /\ VS_websites = {}
  /\ VS_isLoading = TRUE
  /\ VS_error = << >>
  /\ VS_selectedWebsite = None
  /\ VS_deletingId = Null
  /\ VS_mountFetch = TRUE
  /\ VS_deletes = EmptyBag
  /\ URL_url = << >>
  /\ URL_isLoading = FALSE
  /\ URL_error = << >>
  /\ URL_success = None
  /\ URL_scrapes = {}
  /\ Chat_messages = << >>
  /\ Chat_input = << >>
  /\ Chat_isLoading = FALSE
  /\ Chat_requests = {}
  /\ SI_systemInfo = None
  /\ SI_isLoading = TRUE
  /\ SI_error = << >>
  /\ SI_isExpanded = FALSE
  /\ SI_fetch = TRUE

----------------------------------------------------------------------------
(* App *)

\* mutant: the effect empties the transcript only when a site is selected
App_setSelectedWebsite_onlyOnSite(v) ==
  /\ App_selectedWebsite' = v
  /\ Chat_messages' = IF v # None THEN << >> ELSE Chat_messages

\* App.setSelectedWebsite(v) followed by the re-render of ChatBox: the effect
\* on [selectedWebsite] runs when the prop is a different object (Object.is),
\* which is every call except null over null, and empties the transcript.
App_setSelectedWebsite(v) ==
  /\ App_selectedWebsite' = v
  /\ Chat_messages' =
       IF v = None /\ App_selectedWebsite = None THEN Chat_messages ELSE << >>

\* handleWebsiteVectorized(website)
App_handleWebsiteVectorized(website) == App_setSelectedWebsite(Some(website))

\* mutant: a selection coming from the roster leaves the transcript alone
App_handleSelectWebsite_keepTranscript(website) ==
  /\ App_selectedWebsite' = website
  /\ UNCHANGED Chat_messages

\* handleSelectWebsite(website); website is null when the roster clears it
App_handleSelectWebsite(website) == App_setSelectedWebsite(website)

----------------------------------------------------------------------------
(* VectorSelection *)

\* the render reaches the list (not the loading, error or empty view)
VS_ListRendered ==
  /\ ~VS_isLoading
  /\ VS_error = << >>
  /\ VS_websites # {}

\* mutant: the list is stored unfiltered
VS_filterVectorized_all(data) == data

\* response.data.filter(website => website.vector_db_id)
VS_filterVectorized(data) == { w \in data : Truthy(w.vector_db_id) }

\* errorMessage.includes(part), on text cut into the parts that matter
Includes(text, part) == \E i \in 1..Len(text) : text[i] = part

ErrFetchFailed == <<"Failed to load vectorized websites">>
ErrInUse == <<"Cannot delete: Database files are in use. ",
              "Please restart the Django server and try again.">>

\* variant: only the first pattern is recognised as a file lock
VS_deleteErrorText_firstPattern(errorMessage) ==
  IF Includes(errorMessage, "process is using")
    THEN ErrInUse
    ELSE <<"Failed to delete website: ">> \o errorMessage

\* the text handleDeleteWebsite's catch block shows for errorMessage
VS_deleteErrorText(errorMessage) ==
  IF Includes(errorMessage, "process is using")
       \/ Includes(errorMessage, "restart the server")
    THEN ErrInUse
    ELSE <<"Failed to delete website: ">> \o errorMessage

\* fetchWebsites, after its GET resolved with `data`
VS_fetchResolved(data) ==
  /\ VS_websites' = VS_filterVectorized(data)
  /\ VS_isLoading' = FALSE
  /\ UNCHANGED VS_error

\* fetchWebsites, after its GET failed
VS_fetchRejected ==
  /\ VS_error' = ErrFetchFailed
  /\ VS_isLoading' = FALSE
  /\ UNCHANGED VS_websites

\* the mount effect's fetchWebsites() settles
VS_MountFetchResolve(data) ==
  /\ VS_mountFetch
  /\ VS_mountFetch' = FALSE
  /\ VS_fetchResolved(data)
  /\ UNCHANGED << VS_selectedWebsite, VS_deletingId, VS_deletes >>
  /\ UNCHANGED << appVars, urlVars, chatVars, siVars >>

VS_MountFetchReject ==
  /\ VS_mountFetch
  /\ VS_mountFetch' = FALSE
  /\ VS_fetchRejected
  /\ UNCHANGED << VS_selectedWebsite, VS_deletingId, VS_deletes >>
  /\ UNCHANGED << appVars, urlVars, chatVars, siVars >>

\* click on a roster row
VS_handleSelectWebsite(website) ==
  /\ VS_ListRendered
  /\ website \in VS_websites
  /\ VS_selectedWebsite' = Some(website)
  /\ App_handleSelectWebsite(Some([websiteId  |-> website.id,
                                   vectorDbId |-> website.vector_db_id,
                                   url        |-> website.url]))
  /\ UNCHANGED << VS_websites, VS_isLoading, VS_error, VS_deletingId,
                  VS_mountFetch, VS_deletes >>
  /\ UNCHANGED << urlVars, Chat_input, Chat_isLoading, Chat_requests, siVars >>

\* click on a row's delete button, up to the POST being issued; the
\* invocation keeps the selectedWebsite of the render it was created in
VS_handleDeleteWebsite(website, confirmDelete) ==
  /\ VS_ListRendered
  /\ website \in VS_websites
  /\ VS_deletingId # website.id
  /\ IF ~confirmDelete
       THEN UNCHANGED vars
       ELSE /\ VS_deletingId' = website.id
            /\ VS_error' = << >>
            /\ VS_deletes' = VS_deletes (+)
                 SetToBag({[website         |-> website,
                            selectedWebsite |-> VS_selectedWebsite,
                            phase           |-> "post"]})
            /\ UNCHANGED << VS_websites, VS_isLoading, VS_selectedWebsite,
                            VS_mountFetch >>
            /\ UNCHANGED << appVars, urlVars, chatVars, siVars >>

\* selectedWebsite?.id === website.id, in the invocation's closure
VS_deletedWasSelected(d) ==
  /\ d.selectedWebsite # None
  /\ d.selectedWebsite[1].id = d.website.id

\* the delete POST resolved: clear the selection if the closure says the row
\* was selected, then call fetchWebsites() up to its GET being issued
VS_DeletePostResolve(d) ==
  /\ BagIn(d, VS_deletes)
  /\ d.phase = "post"
  /\ IF VS_deletedWasSelected(d)
       THEN /\ VS_selectedWebsite' = None
            /\ App_handleSelectWebsite(None)
       ELSE UNCHANGED << VS_selectedWebsite, App_selectedWebsite,
                         Chat_messages >>
  /\ VS_isLoading' = TRUE
  /\ VS_deletes' = (VS_deletes (-) SetToBag({d}))
                     (+) SetToBag({[d EXCEPT !.phase = "get"]})
  /\ UNCHANGED << VS_websites, VS_error, VS_deletingId, VS_mountFetch >>
  /\ UNCHANGED << urlVars, Chat_input, Chat_isLoading, Chat_requests, siVars >>

\* the delete POST failed: catch, then finally
VS_DeletePostReject(d, responseError) ==
  /\ BagIn(d, VS_deletes)
  /\ d.phase = "post"
  /\ LET errorMessage ==
           IF responseError # << >> THEN responseError ELSE ErrMessage
     IN  VS_error' = VS_deleteErrorText(errorMessage)
  /\ VS_deletingId' = Null
  /\ VS_deletes' = VS_deletes (-) SetToBag({d})
  /\ UNCHANGED << VS_websites, VS_isLoading, VS_selectedWebsite,
                  VS_mountFetch >>
  /\ UNCHANGED << appVars, urlVars, chatVars, siVars >>

\* the refresh GET of a delete resolved; then the delete's finally
VS_DeleteFetchResolve(d, data) ==
  /\ BagIn(d, VS_deletes)
  /\ d.phase = "get"
  /\ VS_fetchResolved(data)
  /\ VS_deletingId' = Null
  /\ VS_deletes' = VS_deletes (-) SetToBag({d})
  /\ UNCHANGED << VS_selectedWebsite, VS_mountFetch >>
  /\ UNCHANGED << appVars, urlVars, chatVars, siVars >>

\* the refresh GET of a delete failed (caught inside fetchWebsites); then
\* the delete's finally
VS_DeleteFetchReject(d) ==
  /\ BagIn(d, VS_deletes)
  /\ d.phase = "get"
  /\ VS_fetchRejected
  /\ VS_deletingId' = Null
  /\ VS_deletes' = VS_deletes (-) SetToBag({d})
  /\ UNCHANGED << VS_selectedWebsite, VS_mountFetch >>
  /\ UNCHANGED << appVars, urlVars, chatVars, siVars >>

----------------------------------------------------------------------------
(* URLInput *)

ErrEnterUrl   == <<"Please enter a URL">>
ErrInvalidUrl == <<"Please enter a valid URL (including http:// or https://)">>
ErrScrapeFailed == <<"Failed to scrape the website. Please try again.">>

\* typing into the URL field (disabled while loading)
URL_onChange(text) ==
  /\ ~URL_isLoading
  /\ URL_url' = text
  /\ UNCHANGED << URL_isLoading, URL_error, URL_success, URL_scrapes >>
  /\ UNCHANGED << appVars, vsVars, chatVars, siVars >>

\* mutant: only the empty text is rejected, the URL is not parsed
URL_handleSubmit_noValidation ==
  /\ ~URL_isLoading
  /\ IF URL_url = << >>
       THEN /\ URL_error' = ErrEnterUrl
            /\ UNCHANGED << URL_isLoading, URL_success, URL_scrapes >>
       ELSE /\ URL_isLoading' = TRUE
            /\ URL_error' = << >>
            /\ URL_success' = None
            /\ URL_scrapes' = URL_scrapes \cup {[url |-> URL_url]}
  /\ UNCHANGED URL_url
  /\ UNCHANGED << appVars, vsVars, chatVars, siVars >>

\* handleSubmit up to the POST being issued (the button is disabled while
\* loading); the request keeps the url of the render it was created in
URL_handleSubmit ==
  /\ ~URL_isLoading
  /\ IF URL_url = << >>
       THEN /\ URL_error' = ErrEnterUrl
            /\ UNCHANGED << URL_isLoading, URL_success, URL_scrapes >>
       ELSE IF ~ParsesAsURL(URL_url)
         THEN /\ URL_error' = ErrInvalidUrl
              /\ UNCHANGED << URL_isLoading, URL_success, URL_scrapes >>
         ELSE /\ URL_isLoading' = TRUE
              /\ URL_error' = << >>
              /\ URL_success' = None
              /\ URL_scrapes' = URL_scrapes \cup {[url |-> URL_url]}
  /\ UNCHANGED URL_url
  /\ UNCHANGED << appVars, vsVars, chatVars, siVars >>

\* mutant: the two ids of the response are swapped
URL_vectorizedWebsite_swapped(data, url) ==
  [websiteId  |-> data.vector_db_id,
   vectorDbId |-> data.website_id,
   url        |-> url]

\* the site object handed to onWebsiteVectorized
URL_vectorizedWebsite(data, url) ==
  [websiteId  |-> data.website_id,
   vectorDbId |-> data.vector_db_id,
   url        |-> url]

\* the scrape POST resolved with body `data`; then finally
URL_ScrapeResolve(r, data) ==
  /\ r \in URL_scrapes
  /\ URL_scrapes' = URL_scrapes \ {r}
  /\ URL_success' = Some([pages |-> data.pages_scraped, url |-> r.url])
  /\ App_handleWebsiteVectorized(URL_vectorizedWebsite(data, r.url))
  /\ URL_isLoading' = FALSE
  /\ UNCHANGED << URL_url, URL_error >>
  /\ UNCHANGED << vsVars, Chat_input, Chat_isLoading, Chat_requests, siVars >>

\* mutant: the loading flag is cleared on success only
URL_ScrapeReject_noFinally(r, responseError) ==
  /\ r \in URL_scrapes
  /\ URL_scrapes' = URL_scrapes \ {r}
  /\ URL_error' = IF responseError # << >> THEN responseError
                                          ELSE ErrScrapeFailed
  /\ UNCHANGED << URL_url, URL_success, URL_isLoading >>
  /\ UNCHANGED << appVars, vsVars, chatVars, siVars >>

\* the scrape POST failed; then finally
URL_ScrapeReject(r, responseError) ==
  /\ r \in URL_scrapes
  /\ URL_scrapes' = URL_scrapes \ {r}
  /\ URL_error' = IF responseError # << >> THEN responseError
                                          ELSE ErrScrapeFailed
  /\ URL_isLoading' = FALSE
  /\ UNCHANGED << URL_url, URL_success >>
  /\ UNCHANGED << appVars, vsVars, chatVars, siVars >>

----------------------------------------------------------------------------
(* ChatBox *)

ChatErrorText ==
  <<"Sorry, there was an error processing your request. Please try again.">>

\* the chat form is rendered (not the placeholder)
Chat_FormRendered == App_selectedWebsite # None

\* typing into the chat field (disabled while loading)
Chat_onChange(text) ==
  /\ Chat_FormRendered
  /\ ~Chat_isLoading
  /\ Chat_input' = text
  /\ UNCHANGED << Chat_messages, Chat_isLoading, Chat_requests >>
  /\ UNCHANGED << appVars, vsVars, urlVars, siVars >>

\* the message handleSubmit appends for the typed text
Chat_userMessage(text) == [sender |-> "user", text |-> text, isError |-> FALSE]
\* mutant: the site id is sent as the vector database id
Chat_requestBody_siteId(website, text) ==
  [vector_db_id |-> website.websiteId, query |-> text]
\* the body of the chat POST
Chat_requestBody(website, text) ==
  [vector_db_id |-> website.vectorDbId, query |-> text]

\* handleSubmit up to the POST being issued (the field is disabled while
\* loading)
Chat_handleSubmit ==
  /\ Chat_FormRendered
  /\ ~Chat_isLoading
  /\ IF Trim(Chat_input) = << >> \/ App_selectedWebsite = None
       THEN UNCHANGED vars
       ELSE /\ Chat_messages' = Append(Chat_messages, Chat_userMessage(Chat_input))
            /\ Chat_input' = << >>
            /\ Chat_isLoading' = TRUE
            /\ Chat_requests' = Chat_requests \cup
                 {Chat_requestBody(App_selectedWebsite[1], Chat_input)}
            /\ UNCHANGED << appVars, vsVars, urlVars, siVars >>

\* the message appended when the chat POST resolved with `answer`
Chat_aiMessage(answer) == [sender |-> "ai", text |-> answer, isError |-> FALSE]
\* the message appended when the chat POST failed
Chat_errorMessage == [sender |-> "system", text |-> ChatErrorText, isError |-> TRUE]

\* mutant: the answer is put in front of the transcript
Chat_RequestResolve_prepend(r, answer) ==
  /\ r \in Chat_requests
  /\ Chat_requests' = Chat_requests \ {r}
  /\ Chat_messages' = << Chat_aiMessage(answer) >> \o Chat_messages
  /\ Chat_isLoading' = FALSE
  /\ UNCHANGED Chat_input
  /\ UNCHANGED << appVars, vsVars, urlVars, siVars >>

\* the chat POST resolved; then finally
Chat_RequestResolve(r, answer) ==
  /\ r \in Chat_requests
  /\ Chat_requests' = Chat_requests \ {r}
  /\ Chat_messages' = Append(Chat_messages, Chat_aiMessage(answer))
  /\ Chat_isLoading' = FALSE
  /\ UNCHANGED Chat_input
  /\ UNCHANGED << appVars, vsVars, urlVars, siVars >>

\* mutant: the loading flag is cleared on success only
Chat_RequestReject_noFinally(r) ==
  /\ r \in Chat_requests
  /\ Chat_requests' = Chat_requests \ {r}
  /\ Chat_messages' = Append(Chat_messages, Chat_errorMessage)
  /\ UNCHANGED << Chat_input, Chat_isLoading >>
  /\ UNCHANGED << appVars, vsVars, urlVars, siVars >>

\* the chat POST failed; then finally
Chat_RequestReject(r) ==
  /\ r \in Chat_requests
  /\ Chat_requests' = Chat_requests \ {r}
  /\ Chat_messages' = Append(Chat_messages, Chat_errorMessage)
  /\ Chat_isLoading' = FALSE
  /\ UNCHANGED Chat_input
  /\ UNCHANGED << appVars, vsVars, urlVars, siVars >>

----------------------------------------------------------------------------
(* SystemInfo *)

ErrSystemInfo == <<"Failed to load system information">>

\* the panel's main view, with the header that toggles the details
SI_MainRendered == ~SI_isLoading /\ SI_error = << >>

\* variant: a failed status fetch leaves the panel loading
SI_FetchReject_keepLoading ==
  /\ SI_fetch
  /\ SI_fetch' = FALSE
  /\ SI_error' = ErrSystemInfo
  /\ UNCHANGED << SI_systemInfo, SI_isLoading, SI_isExpanded >>
  /\ UNCHANGED << appVars, vsVars, urlVars, chatVars >>

\* fetchSystemInfo, after its GET resolved with `data`
SI_FetchResolve(data) ==
  /\ SI_fetch
  /\ SI_fetch' = FALSE
  /\ SI_systemInfo' = Some(data)
  /\ SI_isLoading' = FALSE
  /\ UNCHANGED << SI_error, SI_isExpanded >>
  /\ UNCHANGED << appVars, vsVars, urlVars, chatVars >>

\* fetchSystemInfo, after its GET failed
SI_FetchReject ==
  /\ SI_fetch
  /\ SI_fetch' = FALSE
  /\ SI_error' = ErrSystemInfo
  /\ SI_isLoading' = FALSE
  /\ UNCHANGED << SI_systemInfo, SI_isExpanded >>
  /\ UNCHANGED << appVars, vsVars, urlVars, chatVars >>

\* click on the panel's header
SI_toggleExpand ==
  /\ SI_MainRendered
  /\ SI_isExpanded' = ~SI_isExpanded
  /\ UNCHANGED << SI_systemInfo, SI_isLoading, SI_error, SI_fetch >>
  /\ UNCHANGED << appVars, vsVars, urlVars, chatVars >>

----------------------------------------------------------------------------
(* Specifications.  Spec composes every component with every input; its    *)
(* state space is the product of the components'.  SpecRoster, SpecUrl and *)
(* SpecChat each take all steps of one component and, of the others, the   *)
(* steps that write the state it reads, with fewer inputs: every behaviour *)
(* of one of them is a behaviour of Spec.                                  *)

\* the roster's fetches settle
RosterFetchStep(Lists) ==
  \/ \E data \in Lists : VS_MountFetchResolve(data)
  \/ \E d \in BagToSet(VS_deletes), data \in Lists :
       VS_DeleteFetchResolve(d, data)

RosterFetchFailStep ==
  \/ VS_MountFetchReject
  \/ \E d \in BagToSet(VS_deletes) : VS_DeleteFetchReject(d)

\* the user clicks in the roster and delete POSTs resolve; at most `limit`
\* deletes run at once
RosterUserStep(limit) ==
  \/ \E w \in BackendSites : VS_handleSelectWebsite(w)
  \/ \E w \in BackendSites, c \in BOOLEAN :
       /\ BagCardinality(VS_deletes) < limit
       /\ VS_handleDeleteWebsite(w, c)
  \/ \E d \in BagToSet(VS_deletes) : VS_DeletePostResolve(d)

RosterDeleteFailStep ==
  \E d \in BagToSet(VS_deletes), e \in BackendErrors : VS_DeletePostReject(d, e)

RosterStep ==
  \/ RosterFetchStep(SUBSET BackendSites)
  \/ RosterFetchFailStep
  \/ RosterUserStep(MaxDeletes)
  \/ RosterDeleteFailStep

\* a URL is typed and submitted and its scrape succeeds
UrlScrapeStep(Texts) ==
  \/ \E text \in Texts : URL_onChange(text)
  \/ URL_handleSubmit
  \/ \E r \in URL_scrapes, data \in ScrapeResponses : URL_ScrapeResolve(r, data)

UrlFailStep ==
  \E r \in URL_scrapes, e \in {ErrOther, << >>} : URL_ScrapeReject(r, e)

UrlStep == UrlScrapeStep(UrlInputs) \/ UrlFailStep

ChatStep ==
  \/ \E text \in ChatInputs : Chat_onChange(text)
  \/ Len(Chat_messages) + 2 <= MaxMessages /\ Chat_handleSubmit
  \/ \E r \in Chat_requests, a \in Answers : Chat_RequestResolve(r, a)
  \/ \E r \in Chat_requests : Chat_RequestReject(r)

\* the status fetch settles and the user opens and closes the details
SIStep ==
  \/ \E data \in SystemInfos : SI_FetchResolve(data)
  \/ SI_FetchReject
  \/ SI_toggleExpand

Next == RosterStep \/ UrlStep \/ ChatStep \/ SIStep

Spec == Init /\ [][Next]_vars

\* the roster in full, with the scrape of one URL as the other writer of the
\* root's selection
NextRoster == RosterStep \/ UrlScrapeStep({UrlA})

SpecRoster == Init /\ [][NextRoster]_vars

\* the URL form in full, with roster selection as the other writer of the
\* root's selection
NextUrl ==
  \/ UrlStep
  \/ \E data \in SUBSET BackendSites : VS_MountFetchResolve(data)
  \/ \E w \in BackendSites : VS_handleSelectWebsite(w)

SpecUrl == Init /\ [][NextUrl]_vars

\* the chat panel in full, with the writers of the root's selection: roster
\* clicks (one delete at a time, no failures) and the scrape of one URL
NextChat ==
  \/ ChatStep
  \/ RosterFetchStep({BackendSites})
  \/ RosterUserStep(1)
  \/ UrlScrapeStep({UrlA})

SpecChat == Init /\ [][NextChat]_vars

\* every component with its requests settling either way, on few inputs:
\* one roster list, one delete at a time, one URL, one question asked on an
\* empty transcript

\* a delete POST settles
DeletePostSettle ==
  \/ \E d \in BagToSet(VS_deletes) : VS_DeletePostResolve(d)
  \/ RosterDeleteFailStep

\* a GET of the roster settles
RosterFetchSettle == RosterFetchStep({BackendSites}) \/ RosterFetchFailStep

\* a scrape POST settles
ScrapeSettle ==
  \/ \E r \in URL_scrapes, data \in ScrapeResponses : URL_ScrapeResolve(r, data)
  \/ UrlFailStep

\* a chat POST settles
ChatSettle ==
  \/ \E r \in Chat_requests, a \in Answers : Chat_RequestResolve(r, a)
  \/ \E r \in Chat_requests : Chat_RequestReject(r)

\* the GET of the status panel settles
StatusFetchSettle ==
  \/ \E data \in SystemInfos : SI_FetchResolve(data)
  \/ SI_FetchReject

\* the user asks a question when the transcript is empty
LiveChatStep ==
  \/ Chat_onChange(<<"q">>)
  \/ Chat_messages = << >> /\ Chat_handleSubmit
  \/ ChatSettle

NextLive ==
  \/ RosterUserStep(1)
  \/ RosterDeleteFailStep
  \/ RosterFetchSettle
  \/ UrlScrapeStep({UrlA})
  \/ UrlFailStep
  \/ LiveChatStep
  \/ SIStep

\* every request that was issued settles, by success or by failure; nothing
\* is assumed about what the user does
SpecLive ==
  /\ Init
  /\ [][NextLive]_vars
  /\ WF_vars(DeletePostSettle)
  /\ WF_vars(RosterFetchSettle)
  /\ WF_vars(ScrapeSettle)
  /\ WF_vars(ChatSettle)
  /\ WF_vars(StatusFetchSettle)

----------------------------------------------------------------------------
(* Claims about the selection and the roster. *)

\* the id of the root's selected site, Null when none is selected
App_selectedId ==
  IF App_selectedWebsite = None THEN Null ELSE App_selectedWebsite[1].websiteId

\* C1 (as stated): whenever the delete POST for site S resolves while S is the
\* root's selected site, the root's selected site becomes null.
C1_DeleteOfSelectedClears ==
  [][\A d \in BagToSet(VS_deletes) :
       (VS_DeletePostResolve(d) /\ App_selectedId = d.website.id)
         => App_selectedWebsite' = None]_vars

\* C2 (as stated): whenever the delete POST for site S resolves while the
\* root's selected site is another site or none, the root's selected site is
\* left unchanged.
C2_DeleteOfOtherKeeps ==
  [][\A d \in BagToSet(VS_deletes) :
       (VS_DeletePostResolve(d) /\ App_selectedId # d.website.id)
         => App_selectedWebsite' = App_selectedWebsite]_vars

\* C10: every site in the roster's list has a non-null vector database id,
\* whatever GET /api/websites/ returned on mount and after deletes.
C10_RosterOnlyVectorized ==
  \A w \in VS_websites : w.vector_db_id # Null

\* C10 witness: the list is shown after a delete's refresh replaced it (the
\* row selected by a click is no longer in it) and still has rows.
C10_Witness ==
  /\ VS_ListRendered
  /\ VS_deletes = EmptyBag
  /\ VS_selectedWebsite # None
  /\ VS_selectedWebsite[1] \notin VS_websites

----------------------------------------------------------------------------
(* Claims about the chat panel. *)

\* C3 (as stated): every chat request issued carries a non-null vector
\* database id, the vectorDbId of the site selected when it is issued.
C3_RequestCarriesVectorDbId ==
  [][\A r \in Chat_requests' \ Chat_requests :
       /\ r.vector_db_id # Null
       /\ App_selectedWebsite # None
       /\ r.vector_db_id = App_selectedWebsite[1].vectorDbId]_vars

\* C4 (as stated): whenever the selected site changes, the chat panel has an
\* empty transcript and is not loading, even with a request outstanding.
C4_ChangeGivesFreshIdle ==
  [][App_selectedWebsite' # App_selectedWebsite
       => Chat_messages' = << >> /\ ~Chat_isLoading']_vars

\* C4 (amended): whenever the selected site changes, the transcript becomes
\* empty and the loading flag is left as it was: true exactly when a chat
\* request is still outstanding.
C4_ChangeClearsKeepsLoading ==
  [][App_selectedWebsite' # App_selectedWebsite
       => /\ Chat_messages' = << >>
          /\ Chat_isLoading' = Chat_isLoading
          /\ Chat_isLoading' = (Chat_requests' # {})]_vars

\* C4 witness: the selection was cleared while a request is outstanding: no
\* site, an empty transcript, still loading.
C4_Witness ==
  /\ App_selectedWebsite = None
  /\ Chat_requests # {}
  /\ Chat_isLoading
  /\ Chat_messages = << >>

\* C5: once a change of the selected site has been processed the transcript
\* is empty: no earlier message is left in it.
C5_ChangeEmptiesTranscript ==
  [][App_selectedWebsite' # App_selectedWebsite
       => Chat_messages' = << >>]_vars

\* C5 witness: another site is selected than the one the outstanding request
\* was issued for, and the user message of that request is gone.
C5_Witness ==
  /\ App_selectedWebsite # None
  /\ \E r \in Chat_requests :
       r.vector_db_id # App_selectedWebsite[1].vectorDbId
  /\ Chat_messages = << >>

\* the submission is accepted: text not blank and a site selected
Chat_Accepted == Trim(Chat_input) # << >> /\ App_selectedWebsite # None

\* C6: an accepted submission appends exactly one user message and issues
\* exactly one request carrying the vector database id and the query text;
\* the settling of a request appends exactly one message, from 'ai' on
\* success and from 'system' on failure; nothing else appends a message.
C6_OneUserOneRequestOneReply ==
  [][/\ (Chat_handleSubmit /\ Chat_Accepted)
          => /\ Chat_messages' = Append(Chat_messages,
                   [sender |-> "user", text |-> Chat_input, isError |-> FALSE])
             /\ Chat_requests = {}
             /\ Chat_requests' =
                  {[vector_db_id |-> App_selectedWebsite[1].vectorDbId,
                    query        |-> Chat_input]}
     /\ \A r \in Chat_requests :
          /\ (\E a \in Answers : Chat_RequestResolve(r, a))
               => /\ Len(Chat_messages') = Len(Chat_messages) + 1
                  /\ Chat_messages'[Len(Chat_messages')].sender = "ai"
                  /\ Chat_requests' = Chat_requests \ {r}
          /\ Chat_RequestReject(r)
               => /\ Len(Chat_messages') = Len(Chat_messages) + 1
                  /\ Chat_messages'[Len(Chat_messages')].sender = "system"
                  /\ Chat_requests' = Chat_requests \ {r}
     /\ Len(Chat_messages') > Len(Chat_messages)
          => /\ Len(Chat_messages') = Len(Chat_messages) + 1
             /\ Cardinality(Chat_requests') # Cardinality(Chat_requests)
     /\ Chat_requests' # Chat_requests
          => Len(Chat_messages') = Len(Chat_messages) + 1]_vars

\* C6 witness: one submission answered and a second one answered with an
\* error: user, ai, user, system.
C6_Witness ==
  /\ Len(Chat_messages) = 4
  /\ Chat_messages[1].sender = "user"
  /\ Chat_messages[2].sender = "ai"
  /\ Chat_messages[3].sender = "user"
  /\ Chat_messages[4].sender = "system"
  /\ Chat_requests = {}

IsReply(m) == m.sender \in {"ai", "system"}

\* C7 (as stated): every assistant or error entry of the transcript is
\* preceded by the user message of the request it answers.
C7_ReplyFollowsItsUserMessage ==
  \A i \in 1..Len(Chat_messages) :
    IsReply(Chat_messages[i])
      => i > 1 /\ Chat_messages[i - 1].sender = "user"

\* every reply is the first entry or comes right after a user message
C7_Shape ==
  \A i \in 1..Len(Chat_messages) :
    IsReply(Chat_messages[i])
      => i = 1 \/ Chat_messages[i - 1].sender = "user"

\* C7 (amended): when a request settles its reply is appended at the end of
\* the transcript, right after the user message of that request, unless the
\* transcript was emptied by a change of the selected site meanwhile: then
\* the reply is the first entry.  So every assistant or error entry is the
\* first entry or comes right after the user message it answers.
C7_ReplyFollowsUnlessCleared ==
  [][/\ \A r \in Chat_requests :
          r \notin Chat_requests'
            => /\ \/ Chat_messages = << >>
                  \/ Chat_messages[Len(Chat_messages)] =
                       [sender |-> "user", text |-> r.query, isError |-> FALSE]
               /\ Len(Chat_messages') = Len(Chat_messages) + 1
               /\ SubSeq(Chat_messages', 1, Len(Chat_messages)) = Chat_messages
               /\ IsReply(Chat_messages'[Len(Chat_messages')])
     /\ C7_Shape']_vars

\* C7 witness: a reply that arrived after a change of site is the first
\* entry, and the next submission and its reply follow it.
C7_Witness ==
  /\ Len(Chat_messages) = 3
  /\ Chat_messages[1].sender = "ai"
  /\ Chat_messages[2].sender = "user"
  /\ Chat_messages[3].sender = "ai"

----------------------------------------------------------------------------
(* Claims about the URL form. *)

\* C8: when a scrape resolves the root's selected site becomes
\* {websiteId: website_id, vectorDbId: vector_db_id, url: the submitted URL}
\* and the request is gone (it cannot set it again); a failed scrape leaves
\* the root's selected site unchanged.
C8_ScrapeSuccessSelects ==
  [][\A r \in URL_scrapes :
       /\ \A data \in ScrapeResponses :
            URL_ScrapeResolve(r, data)
              => /\ App_selectedWebsite' =
                      << [websiteId  |-> data.website_id,
                          vectorDbId |-> data.vector_db_id,
                          url        |-> URL_url] >>
                 /\ URL_scrapes' = {}
       /\ \A e \in BackendErrors :
            URL_ScrapeReject(r, e)
              => /\ App_selectedWebsite' = App_selectedWebsite
                 /\ URL_scrapes' = {}]_vars

\* C8 witness: the scrape of UrlB succeeded and its site is selected.
C8_Witness ==
  /\ URL_success # None
  /\ URL_scrapes = {}
  /\ App_selectedWebsite =
       << [websiteId |-> "w1", vectorDbId |-> "v1", url |-> UrlB] >>

\* texts that are empty or are no absolute URL
C9_Malformed == { << >>, UrlBlank, UrlBad, UrlNoHost }

\* C9: submitting an empty text or one that is no absolute URL issues no
\* scrape request, sets the error message and leaves the loading flag and
\* the root's selected site unchanged.
C9_MalformedRejectedLocally ==
  [][(URL_handleSubmit /\ URL_url \in C9_Malformed)
       => /\ URL_scrapes' = URL_scrapes
          /\ URL_error' # << >>
          /\ URL_isLoading' = URL_isLoading
          /\ App_selectedWebsite' = App_selectedWebsite]_vars

\* C9 witness: a text with a scheme but no host was rejected while a site is
\* selected and nothing is in flight.
C9_Witness ==
  /\ URL_url = UrlNoHost
  /\ URL_error = ErrInvalidUrl
  /\ URL_scrapes = {}
  /\ ~URL_isLoading
  /\ App_selectedWebsite # None

----------------------------------------------------------------------------
(* Claims about the delete button of a roster row. *)

\* disabled={deletingId === website.id}
VS_deleteDisabled(website) == VS_deletingId = website.id

\* a handleDeleteWebsite invocation for the row is still running
VS_deletePending(website) ==
  \E d \in BagToSet(VS_deletes) : d.website.id = website.id

\* C11 (as stated): the rows whose delete button is disabled are exactly the
\* rows with a pending delete, also when a second delete is started before
\* the first has settled.
C11_DisabledIffDeleting ==
  \A w \in VS_websites : VS_deleteDisabled(w) <=> VS_deletePending(w)

----------------------------------------------------------------------------
(* Claims about requests in flight. *)

\* C12: while a scrape is pending the URL form is loading and can neither be
\* edited nor submitted, so at most one scrape is in flight; when none is
\* pending the form is not loading and can be submitted.
C12_OneScrapeAtATime ==
  /\ Cardinality(URL_scrapes) <= 1
  /\ URL_isLoading <=> URL_scrapes # {}
  /\ URL_isLoading
       => /\ ~ENABLED URL_handleSubmit
          /\ ~ENABLED (\E text \in UrlInputs : URL_onChange(text))
  /\ ~URL_isLoading => ENABLED URL_handleSubmit

\* C12 witness: a scrape was issued and failed without a response body; the
\* form shows the fallback error and is not loading.
C12_Witness ==
  /\ URL_error = ErrScrapeFailed
  /\ URL_scrapes = {}
  /\ ~URL_isLoading
  /\ ParsesAsURL(URL_url)

\* the typing indicator is on screen: it is part of the form view
Chat_typingShown == Chat_FormRendered /\ Chat_isLoading

\* the chat field is on screen and can be edited
Chat_inputEnabled == Chat_FormRendered /\ ~Chat_isLoading

\* C13 (as stated): the chat panel is loading exactly when a chat request is
\* outstanding and at most one is; while one is pending the typing indicator
\* is shown and the field is disabled; when none is pending and the form is
\* shown the field is enabled.
C13_TypingShownWhilePending ==
  /\ Cardinality(Chat_requests) <= 1
  /\ Chat_isLoading <=> Chat_requests # {}
  /\ Chat_requests # {} => Chat_typingShown /\ ~Chat_inputEnabled
  /\ (Chat_requests = {} /\ Chat_FormRendered) => Chat_inputEnabled

\* C13 (amended): the chat panel is loading exactly when a chat request is
\* outstanding and at most one is, also across changes of the selected site;
\* while it is loading the field cannot be edited and nothing can be
\* submitted, and the typing indicator is shown exactly if a site is
\* selected (with no site the placeholder replaces the form); when it is not
\* loading and a site is selected the field can be edited.
C13_LoadingIffChatPending ==
  /\ Cardinality(Chat_requests) <= 1
  /\ Chat_isLoading <=> Chat_requests # {}
  /\ Chat_isLoading
       => /\ ~ENABLED Chat_handleSubmit
          /\ ~ENABLED (\E text \in ChatInputs : Chat_onChange(text))
          /\ ~Chat_inputEnabled
          /\ Chat_typingShown <=> App_selectedWebsite # None
  /\ (~Chat_isLoading /\ App_selectedWebsite # None)
       => /\ ENABLED (\E text \in ChatInputs : Chat_onChange(text))
          /\ Chat_inputEnabled

\* C13 witness: the request issued for the site with database v1 is still
\* outstanding while the site with database v2 is selected; the form is
\* rendered and loading.
C13_Witness ==
  /\ Chat_isLoading
  /\ App_selectedWebsite # None
  /\ App_selectedWebsite[1].vectorDbId = "v2"
  /\ \E r \in Chat_requests : r.vector_db_id = "v1"

-----------------------------------------------------------------------------
(* Claims about failures                                                   *)

\* what the claim expects the roster to show after a delete failed with the
\* backend error text e (empty: no response, transport failure)
C14_ExpectedError(e) ==
  IF \E i \in 1..Len(e) : e[i] \in {"process is using", "restart the server"}
    THEN ErrInUse
    ELSE IF e = << >>
      THEN <<"Failed to delete website: ", "Network Error">>
      ELSE <<"Failed to delete website: ">> \o e

\* C14: when a delete POST fails, the roster's list is unchanged, no fetch
\* and no further request is started, the root's selection and the roster's
\* local selection are unchanged, the deleting marker is cleared, and the
\* error is the restart instruction for a file-lock text and otherwise the
\* backend's (or the transport's) text after the failure notice.
C14_FailedDeleteKeepsListAndSelection ==
  [][ \A d \in BagToSet(VS_deletes), e \in BackendErrors :
        VS_DeletePostReject(d, e)
          => /\ VS_websites' = VS_websites
             /\ VS_isLoading' = VS_isLoading
             /\ VS_mountFetch' = VS_mountFetch
             /\ VS_deletes' = VS_deletes (-) SetToBag({d})
             /\ App_selectedWebsite' = App_selectedWebsite
             /\ VS_selectedWebsite' = VS_selectedWebsite
             /\ VS_deletingId' = Null
             /\ VS_error' = C14_ExpectedError(e) ]_vars

\* C14 witness: a delete of a listed site failed on a locked file while a
\* site was selected; nothing is pending any more.
C14_Witness ==
  /\ VS_error = ErrInUse
  /\ VS_deletingId = Null
  /\ VS_deletes = EmptyBag
  /\ VS_websites # {}
  /\ App_selectedWebsite # None

\* no roster request is outstanding
VS_Quiescent == VS_deletes = EmptyBag /\ ~VS_mountFetch

\* C16 (as stated): the roster's error view is not absorbing.  When the
\* error view is shown and no roster request is outstanding, some step of
\* the roster that changes the roster's state must be possible; otherwise
\* the roster can never show its list again.
C16_ErrorViewCanBeLeft ==
  (VS_error # << >> /\ VS_Quiescent) => ENABLED << RosterStep >>_vsVars

\* C16, what the code does instead: once an error is set it is never
\* cleared, so the list is never rendered again.
C16_ErrorIsNeverCleared ==
  [][ VS_error # << >> => VS_error' # << >> /\ ~VS_ListRendered' ]_vars

-----------------------------------------------------------------------------
(* Claims about what is displayed                                          *)

\* C17 (as stated): whenever the roster's local selection is non-null, the
\* root's selected site has the same id.
C17_RosterSelectionIsRootSelection ==
  VS_selectedWebsite # None => App_selectedId = VS_selectedWebsite[1].id

\* C18 (as stated): the URL form's error message and success message are
\* never both non-empty.
C18_ErrorAndSuccessExclusive ==
  ~(URL_error # << >> /\ URL_success # None)

-----------------------------------------------------------------------------
(* Claims about progress                                                   *)

\* C15: if every issued request settles, every loading state clears: a
\* pending scrape leads to the URL form not loading, a pending chat request
\* to the chat panel not loading, a pending delete to no row marked as
\* deleting, and a loading roster or status panel to that panel out of its
\* loading view, whatever the user selects meanwhile.
C15_LoadingEventuallyClears ==
  /\ (URL_scrapes # {}) ~> ~URL_isLoading
  /\ (Chat_requests # {}) ~> ~Chat_isLoading
  /\ (VS_deletes # EmptyBag) ~> (VS_deletingId = Null)
  /\ (VS_mountFetch \/ VS_isLoading) ~> ~VS_isLoading
  /\ (SI_fetch \/ SI_isLoading) ~> ~SI_isLoading

\* C15 witness: every panel had a request settle by failure and is out of
\* its loading state; the chat request settled after the selection had
\* changed, so its reply stands alone in the transcript.
C15_Witness ==
  /\ ~SI_isLoading /\ SI_error = ErrSystemInfo
  /\ ~VS_isLoading /\ VS_deletingId = Null /\ VS_error = ErrInUse
  /\ ~URL_isLoading /\ URL_error = ErrScrapeFailed
  /\ ~Chat_isLoading /\ Chat_messages = << Chat_errorMessage >>

====
